---- MODULE Spec2Model ----
(***************************************************************************)
(* Model of the conda Ansible module                                       *)
(* (lib/ansible/modules/packaging/os/conda.py).                            *)
(*                                                                         *)
(* One behaviour is one run of run_module: the parameters are drawn in     *)
(* Init, Conda(module) is constructed, and every call of                   *)
(* module.run_command is one step whose answer (exit code, standard        *)
(* output, standard error) is chosen by the external tool.                 *)
(*                                                                         *)
(* A Python string is a sequence of one-character strings, so that         *)
(* str.split, str.lower and the "in" test are computed, not assumed.       *)
(***************************************************************************)
EXTENDS Naturals, Sequences, FiniteSets

\* ------------------------------------------------------------------ bounds
MaxPkgs == 2
MaxInstalled == 2
MaxChannels == 2
MaxRc == 0

\* ---------------------------------------------------------- string literals
sep == "/"
VersionSep == "="
SubList == <<"l","i","s","t">>
SubInstall == <<"i","n","s","t","a","l","l">>
SubUpdate == <<"u","p","d","a","t","e">>
SubCreate == <<"c","r","e","a","t","e">>
SubRemove == <<"r","e","m","o","v","e">>
FlagQuiet == <<"-","-","q","u","i","e","t">>
FlagJson == <<"-","-","j","s","o","n">>
FlagYes == <<"-","y">>
FlagName == <<"-","-","n","a","m","e">>
FlagPrefix == <<"-","-","p","r","e","f","i","x">>
FlagChannel == <<"-","-","c","h","a","n","n","e","l">>
FlagDryRun == <<"-","-","d","r","y","-","r","u","n">>
FlagStrict == <<"-","S">>
MsgCommandFailed == "Command failed"
MsgParseFailed == "Failed to parse the output of the command"
MsgNoExecutable == "Failed to find required executable conda"
StateChoices == {"present", "absent", "latest"}

\* ------------------------------------------------------ python str helpers
\* c in s
Contains(s, c) == \E i \in 1..Len(s) : s[i] = c

\* str.lower() of one character, over the letters the model uses
LowerChar(c) ==
    CASE c = "P" -> "p"
      [] c = "F" -> "f"
      [] c = "B" -> "b"
      [] OTHER -> c

\* s.lower()
Lower(s) == [i \in 1..Len(s) |-> LowerChar(s[i])]

RECURSIVE SplitFirst(_, _)
\* s.split(c)[0]: the characters before the first c, all of s when there is none
SplitFirst(s, c) ==
    IF s = <<>> \/ Head(s) = c THEN <<>>
    ELSE <<Head(s)>> \o SplitFirst(Tail(s), c)

\* set(l)
ToSet(l) == {l[i] : i \in 1..Len(l)}

\* every order a python set of strings can be iterated in
Orderings(S) ==
    {q \in [1..Cardinality(S) -> S] : \A i, j \in 1..Cardinality(S) : q[i] = q[j] => i = j}

\* ------------------------------------------------------------- json values
\* standard output of the tool: text that is not JSON, a JSON object (a set of
\* <<key, value>> members) or a JSON array of package records (their names)
JsonText == [kind |-> "text", members |-> {}, names |-> <<>>]
JsonObject(m) == [kind |-> "object", members |-> m, names |-> <<>>]
JsonArray(ns) == [kind |-> "array", members |-> {}, names |-> ns]
EmptyObject == JsonObject({})

\* "key" in stdout_json: a key of an object; an array of records holds no string
JsonIn(key, j) ==
    /\ j.kind = "object"
    /\ \E m \in j.members : m[1] = key

\* json.loads(stdout) raises ValueError
LoadsFails(stdout) == stdout.kind = "text"

\* ------------------------------------------------------------------- Conda
\* a selector that looks at the first character only
EnvFlagFirstCharOnly(environment) ==
    IF environment # <<>> /\ Head(environment) = sep THEN FlagPrefix ELSE FlagName

\* env_flag of Conda.__init__
EnvFlag(environment) ==
    IF Contains(environment, sep) THEN FlagPrefix ELSE FlagName

EnvArgs(environment) == <<EnvFlag(environment), environment>>

RECURSIVE ChannelArgs(_)
ChannelArgs(channels) ==
    IF channels = <<>> THEN <<>>
    ELSE <<FlagChannel, Head(channels)>> \o ChannelArgs(Tail(channels))

\* check_mode ignored
DryRunArgsNever(check_mode) == <<>>

DryRunArgs(check_mode) == IF check_mode THEN <<FlagDryRun>> ELSE <<>>

\* the dry-run flag appended before the channels
DefaultArgsDryRunFirst(environment, channels, check_mode) ==
    <<FlagYes>> \o EnvArgs(environment) \o DryRunArgs(check_mode) \o ChannelArgs(channels)

DefaultArgs(environment, channels, check_mode) ==
    <<FlagYes>> \o EnvArgs(environment) \o ChannelArgs(channels) \o DryRunArgs(check_mode)

\* a deep test: an empty actions object counts as no change
changedNonEmptyActions(stdout_json) ==
    \E m \in stdout_json.members : m[1] = "actions" /\ m[2] # "{}"

\* Conda.changed
changed(stdout_json) ==
    IF ~JsonIn("actions", stdout_json) THEN FALSE ELSE TRUE

Result(ch, cmd, rc, stdout_json, stderr) ==
    [changed |-> ch, cmd |-> cmd, rc |-> rc, stdout_json |-> stdout_json, stderr |-> stderr]

\* the command vector of run_conda
BuildCmd(c, cmd, args, add_default_args) ==
    <<c.executable, cmd>> \o <<FlagQuiet, FlagJson>>
        \o (IF add_default_args THEN c.default_args ELSE <<>>)
        \o args

\* only exit code 1 taken for a failure
CommandFailsOnlyOne(fail_on_error, rc) == fail_on_error /\ rc = 1

\* the first fail_json of run_conda
CommandFails(fail_on_error, rc) == fail_on_error /\ rc # 0

\* run_conda: the command vector, how the call ends, and the Result it returns
run_conda(c, cmd, args, fail_on_error, add_default_args, rc, stdout, stderr) ==
    LET vec == BuildCmd(c, cmd, args, add_default_args) IN
    IF CommandFails(fail_on_error, rc)
    THEN [cmd |-> vec, msg |-> MsgCommandFailed, result |-> Result(FALSE, vec, rc, EmptyObject, stderr)]
    ELSE IF LoadsFails(stdout)
    THEN [cmd |-> vec, msg |-> MsgParseFailed, result |-> Result(FALSE, vec, rc, EmptyObject, stderr)]
    ELSE [cmd |-> vec, msg |-> "", result |-> Result(changed(stdout), vec, rc, stdout, stderr)]

\* list_packages opting out of fail-fast like the probe
ListFailOnErrorNever(op) == FALSE

\* fail_on_error of the two list calls
ListFailOnError(op) == IF op = "env_exists" THEN FALSE ELSE TRUE

\* only exit code 1 taken for a missing environment
EnvExistsValueOnlyOne(result) == result.rc # 1

\* return value of env_exists
EnvExistsValue(result) == result.rc = 0

\* the comprehension of list_packages raises on an object that has keys
ListNamesRaises(stdout_json) ==
    stdout_json.kind = "object" /\ stdout_json.members # {}

ListNames(stdout_json) ==
    IF stdout_json.kind = "array" THEN stdout_json.names ELSE <<>>

\* the version spec removed, the case kept
CleanNameKeepCase(pkg) == SplitFirst(pkg, VersionSep)

\* pkg.split("=")[0].lower()
CleanName(pkg) == Lower(SplitFirst(pkg, VersionSep))

PackagesNames(packages) == [i \in 1..Len(packages) |-> CleanName(packages[i])]

\* the requested names, not intersected with the installed ones
PackagesToRemoveAll(installed_packages, packages) ==
    ToSet(PackagesNames(packages))

PackagesToRemove(installed_packages, packages) ==
    ToSet(installed_packages) \cap ToSet(PackagesNames(packages))

NothingToDo == Result(FALSE, <<>>, 0, EmptyObject, <<>>)

InstallArgs(packages) == <<FlagStrict>> \o packages
UpdateArgs(packages) == packages
CreateArgs(packages) == packages

\* present installing into an environment that does not exist
DispatchNoCreate(state, exists) ==
    IF state = "present" THEN SubInstall
    ELSE (IF exists THEN SubUpdate ELSE SubCreate)

\* the branch of run_module for present and latest
Dispatch(state, exists) ==
    IF state = "present"
    THEN (IF exists THEN SubInstall ELSE SubCreate)
    ELSE (IF exists THEN SubUpdate ELSE SubCreate)

\* the first call of each branch of run_module
FirstCall(state) == IF state = "absent" THEN "list_packages" ELSE "env_exists"

\* ------------------------------------------------------------ input domains
RECURSIVE SeqsUpTo(_, _)
SeqsUpTo(S, n) ==
    IF n = 0 THEN {<<>>}
    ELSE SeqsUpTo(S, n - 1) \cup {Append(q, x) : q \in SeqsUpTo(S, n - 1), x \in S}

PkgSpecs == {<<"P","=","1">>, <<"f">>}
\* the names the tool may report, in the order conda list prints them
InstalledNames == <<<<"P">>, <<"f">>, <<"p">>>>
Environments == {<<"e">>, <<".","/","e">>}
ChannelNames == {<<"c">>, <<"d">>}
Executable == <<"/","c">>
ExitCodes == (0..MaxRc) \cup {127}
JsonMembers == {<<"actions", "{}">>, <<"actions", "{LINK}">>, <<"success", "true">>}
JsonObjects ==
    {JsonObject(m) : m \in {mm \in SUBSET JsonMembers : \A a, b \in mm : a[1] = b[1] => a = b}}
RECURSIVE Listing(_, _)
\* the names with an index in S, each once, in the order of the tool
Listing(S, i) ==
    IF i > Len(InstalledNames) THEN <<>>
    ELSE (IF i \in S THEN <<InstalledNames[i]>> ELSE <<>>) \o Listing(S, i + 1)
JsonArrays ==
    {JsonArray(Listing(S, 1)) : S \in {T \in SUBSET (1..Len(InstalledNames)) :
                                          Cardinality(T) <= MaxInstalled}}
Stdouts == {JsonText} \cup JsonObjects \cup JsonArrays
Stderrs == {<<>>, <<"!">>}

\* ------------------------------------------------------------------- state
VARIABLES
    module,             \* AnsibleModule: params and check_mode
    conda,              \* the Conda instance
    pc,                 \* position in run_module
    exists,             \* value returned by env_exists
    installed_packages, \* value returned by list_packages
    calls,              \* the calls of module.run_command so far
    outcome             \* how the run ended: exit_json, fail_json or an exception

vars == <<module, conda, pc, exists, installed_packages, calls, outcome>>

NoConda == [executable |-> <<>>, environment |-> <<>>, env_args |-> <<>>, default_args |-> <<>>]
Running == [kind |-> "running", msg |-> "", result |-> NothingToDo]

Call(op, r, fail_on_error, rc, stdout) ==
    [op |-> op, cmd |-> r.cmd, fail_on_error |-> fail_on_error, rc |-> rc,
     valid_json |-> ~LoadsFails(stdout), msg |-> r.msg]

Init ==
    /\ module \in [name : SeqsUpTo(PkgSpecs, MaxPkgs),
                   state : StateChoices,
                   executable : {<<>>, Executable},
                   environment : Environments,
                   channels : SeqsUpTo(ChannelNames, MaxChannels),
                   check_mode : BOOLEAN]
    /\ conda = NoConda
    /\ pc = "start"
    /\ exists = FALSE
    /\ installed_packages = <<>>
    /\ calls = <<>>
    /\ outcome = Running

\* Conda(module), with the executable given or found by get_bin_path
Construct ==
    /\ pc = "start"
    /\ \E found \in {<<>>, Executable} :
        LET executable == IF module.executable # <<>> THEN module.executable ELSE found IN
        IF executable = <<>>
        THEN /\ pc' = "done"
             /\ outcome' = [kind |-> "fail_json", msg |-> MsgNoExecutable, result |-> NothingToDo]
             /\ UNCHANGED conda
        ELSE /\ pc' = FirstCall(module.state)
             /\ conda' = [executable |-> executable,
                          environment |-> module.environment,
                          env_args |-> EnvArgs(module.environment),
                          default_args |-> DefaultArgs(module.environment, module.channels,
                                                       module.check_mode)]
             /\ UNCHANGED outcome
    /\ UNCHANGED <<module, exists, installed_packages, calls>>

\* conda.env_exists() in run_module
EnvExists ==
    /\ pc = "env_exists"
    /\ \E rc \in ExitCodes, stdout \in Stdouts, stderr \in Stderrs :
        LET fail_on_error == ListFailOnError("env_exists")
            r == run_conda(conda, SubList, conda.env_args, fail_on_error, FALSE, rc, stdout, stderr)
        IN
        /\ calls' = Append(calls, Call("env_exists", r, fail_on_error, rc, stdout))
        /\ IF r.msg # ""
           THEN /\ pc' = "done"
                /\ outcome' = [kind |-> "fail_json", msg |-> r.msg, result |-> r.result]
                /\ UNCHANGED exists
           ELSE /\ pc' = "mutate"
                /\ exists' = EnvExistsValue(r.result)
                /\ UNCHANGED outcome
    /\ UNCHANGED <<module, conda, installed_packages>>

\* the end of run_module after a mutating call: fail_json or exit_json(**result)
Finish(op, r, fail_on_error, rc, stdout) ==
    /\ calls' = Append(calls, Call(op, r, fail_on_error, rc, stdout))
    /\ pc' = "done"
    /\ outcome' = [kind |-> IF r.msg # "" THEN "fail_json" ELSE "exit_json",
                   msg |-> r.msg, result |-> r.result]

Mutate(op, sub, args) ==
    \E rc \in ExitCodes, stdout \in Stdouts, stderr \in Stderrs :
        Finish(op, run_conda(conda, sub, args, TRUE, TRUE, rc, stdout, stderr), TRUE, rc, stdout)

\* conda.install(packages)
Install ==
    /\ pc = "mutate"
    /\ Dispatch(module.state, exists) = SubInstall
    /\ Mutate("install", SubInstall, InstallArgs(module.name))
    /\ UNCHANGED <<module, conda, exists, installed_packages>>

\* conda.update(packages)
Update ==
    /\ pc = "mutate"
    /\ Dispatch(module.state, exists) = SubUpdate
    /\ Mutate("update", SubUpdate, UpdateArgs(module.name))
    /\ UNCHANGED <<module, conda, exists, installed_packages>>

\* conda.create(packages)
Create ==
    /\ pc = "mutate"
    /\ Dispatch(module.state, exists) = SubCreate
    /\ Mutate("create", SubCreate, CreateArgs(module.name))
    /\ UNCHANGED <<module, conda, exists, installed_packages>>

\* self.list_packages() at the head of conda.remove
ListPackages ==
    /\ pc = "list_packages"
    /\ \E rc \in ExitCodes, stdout \in Stdouts, stderr \in Stderrs :
        LET fail_on_error == ListFailOnError("list_packages")
            r == run_conda(conda, SubList, conda.env_args, fail_on_error, FALSE, rc, stdout, stderr)
        IN
        /\ calls' = Append(calls, Call("list_packages", r, fail_on_error, rc, stdout))
        /\ IF r.msg # ""
           THEN /\ pc' = "done"
                /\ outcome' = [kind |-> "fail_json", msg |-> r.msg, result |-> r.result]
                /\ UNCHANGED installed_packages
           ELSE IF ListNamesRaises(r.result.stdout_json)
           THEN /\ pc' = "done"
                /\ outcome' = [kind |-> "exception", msg |-> "TypeError", result |-> r.result]
                /\ UNCHANGED installed_packages
           ELSE /\ pc' = "remove"
                /\ installed_packages' = ListNames(r.result.stdout_json)
                /\ UNCHANGED outcome
    /\ UNCHANGED <<module, conda, exists>>

\* the rest of conda.remove(packages), and exit_json
Remove ==
    /\ pc = "remove"
    /\ LET packages_to_remove == PackagesToRemove(installed_packages, module.name) IN
       IF packages_to_remove # {}
       THEN \E args \in Orderings(packages_to_remove) : Mutate("remove", SubRemove, args)
       ELSE /\ pc' = "done"
            /\ outcome' = [kind |-> "exit_json", msg |-> "", result |-> NothingToDo]
            /\ UNCHANGED calls
    /\ UNCHANGED <<module, conda, exists, installed_packages>>

Next ==
    \/ Construct
    \/ EnvExists
    \/ Install
    \/ Update
    \/ Create
    \/ ListPackages
    \/ Remove

Spec == Init /\ [][Next]_vars

\* ------------------------------------------------------------------ claims
Done == pc = "done"
Constructed == conda # NoConda
Probing == module.state \in {"present", "latest"}
Sub(c) == c.cmd[2]
MutatingSubs == {SubInstall, SubUpdate, SubCreate, SubRemove}
\* what follows the head [executable, subcommand, --quiet, --json] of a command
Tail4(cmd) == SubSeq(cmd, 5, Len(cmd))
IsPrefix(a, b) == Len(a) <= Len(b) /\ SubSeq(b, 1, Len(a)) = a
HasSep(environment) == \E i \in DOMAIN environment : environment[i] = "/"
SelectorPair == <<IF HasSep(module.environment) THEN FlagPrefix ELSE FlagName, module.environment>>
ChannelPairs ==
    [i \in 1..(2 * Len(module.channels)) |->
        IF i % 2 = 1 THEN FlagChannel ELSE module.channels[i \div 2]]
ExpectedDefaults ==
    <<FlagYes>> \o SelectorPair \o ChannelPairs
        \o (IF module.check_mode THEN <<FlagDryRun>> ELSE <<>>)
\* the bare lowercase name of a specifier
BareLower(pkg) ==
    LET cut == {i \in DOMAIN pkg : pkg[i] = "="}
        n == IF cut = {} THEN Len(pkg) ELSE (CHOOSE i \in cut : \A j \in cut : i <= j) - 1
    IN [i \in 1..n |-> IF pkg[i] = "P" THEN "p" ELSE IF pkg[i] = "F" THEN "f" ELSE pkg[i]]
RequestedBare == {BareLower(module.name[i]) : i \in DOMAIN module.name}
InstalledAsReported == {installed_packages[i] : i \in DOMAIN installed_packages}
InstalledBare == {BareLower(installed_packages[i]) : i \in DOMAIN installed_packages}
\* list_packages has returned and remove has run to its end
RemoveRan ==
    /\ module.state = "absent"
    /\ Done
    /\ Len(calls) >= 1
    /\ calls[1].msg = ""
    /\ outcome.kind # "exception"
RemoveArgs == SubSeq(calls[2].cmd, 5 + Len(conda.default_args), Len(calls[2].cmd))
NoRepeat(q) == \A i, j \in DOMAIN q : q[i] = q[j] => i = j
ExpectedMutation ==
    IF calls[1].rc # 0 THEN SubCreate
    ELSE IF module.state = "present" THEN SubInstall ELSE SubUpdate

\* C1 as stated: for present and latest every run makes one existence probe
\* and then exactly one mutating invocation chosen from the probe's outcome.
C1_AlwaysProbeThenMutate ==
    (Probing /\ Constructed /\ Done) =>
        /\ Len(calls) = 2
        /\ Sub(calls[1]) = SubList /\ ~calls[1].fail_on_error
        /\ Sub(calls[2]) = ExpectedMutation

\* C1 amended: for present and latest the first invocation is the existence
\* probe (list, not fail-fast); when the probe's standard output is a JSON
\* object or array it is followed by exactly one mutating invocation, install
\* (present) or update (latest) after exit code 0 and create after any other
\* exit code; when the probe's standard output is not valid JSON the run ends
\* with the parse error and no mutating invocation is made.
C1_ProbeThenMutate ==
    Probing =>
        /\ Len(calls) <= 2
        /\ Len(calls) >= 1 => (Sub(calls[1]) = SubList /\ ~calls[1].fail_on_error)
        /\ Len(calls) = 2 => (calls[1].valid_json /\ Sub(calls[2]) = ExpectedMutation)
        /\ (Done /\ Constructed) =>
              IF calls[1].valid_json THEN Len(calls) = 2
              ELSE Len(calls) = 1 /\ outcome.kind = "fail_json" /\ outcome.msg = MsgParseFailed

C1_Witness ==
    /\ module.state = "present" /\ Done /\ Len(calls) = 2
    /\ calls[1].rc # 0 /\ Sub(calls[2]) = SubCreate

\* C2: a run makes at most two invocations; for absent there is no existence
\* probe: one fail-fast list invocation, then at most one remove invocation.
C2_AtMostTwoInvocations ==
    /\ Len(calls) <= 2
    /\ module.state = "absent" =>
        /\ \A i \in DOMAIN calls : calls[i].fail_on_error
        /\ Len(calls) >= 1 => Sub(calls[1]) = SubList
        /\ Len(calls) = 2 => Sub(calls[2]) = SubRemove

C2_Witness ==
    /\ module.state = "absent" /\ Done /\ Len(calls) = 2
    /\ calls[1].fail_on_error /\ Sub(calls[2]) = SubRemove

\* C3 as stated: installed names and requested specifiers are both reduced to
\* bare lowercase names, and a non-empty intersection of the two is what the
\* remove subcommand gets as positional arguments.
C3_BothNormalized ==
    (RemoveRan /\ InstalledBare \cap RequestedBare # {}) =>
        /\ Len(calls) = 2
        /\ Sub(calls[2]) = SubRemove
        /\ ToSet(RemoveArgs) = InstalledBare \cap RequestedBare
        /\ NoRepeat(RemoveArgs)

\* C3 amended: only the requested specifiers are reduced to bare lowercase
\* names; they are intersected with the installed names as the tool reports
\* them, and a non-empty intersection is what the remove subcommand gets as
\* positional arguments, each member once.
C3_RequestedNormalized ==
    (RemoveRan /\ InstalledAsReported \cap RequestedBare # {}) =>
        /\ Len(calls) = 2
        /\ Sub(calls[2]) = SubRemove
        /\ ToSet(RemoveArgs) = InstalledAsReported \cap RequestedBare
        /\ NoRepeat(RemoveArgs)

C3_Witness ==
    /\ RemoveRan /\ Len(calls) = 2
    /\ module.name = <<<<"f">>, <<"P","=","1">>>>
    /\ installed_packages = <<<<"P">>, <<"p">>>>
    /\ RemoveArgs = <<<<"p">>>>

\* C4: when no requested name is among the installed packages, remove makes
\* no remove invocation and the run succeeds with the synthetic result
\* changed = false, cmd empty, rc = 0, stdout_json = {}, stderr = "".
C4_NothingToRemove ==
    (RemoveRan /\ InstalledAsReported \cap RequestedBare = {}) =>
        /\ Len(calls) = 1
        /\ outcome.kind = "exit_json"
        /\ outcome.result = [changed |-> FALSE, cmd |-> <<>>, rc |-> 0,
                             stdout_json |-> JsonObject({}), stderr |-> <<>>]

C4_Witness ==
    /\ RemoveRan /\ Len(calls) = 1 /\ outcome.kind = "exit_json"
    /\ module.name = <<<<"P","=","1">>>>
    /\ installed_packages = <<<<"P">>, <<"f">>>>

\* C5 as stated: for every non-zero exit code, whatever the standard output,
\* the probe returns false and raises no fatal error; after exit code 0 a
\* probe that returns returns true.
C5_ProbeNeverFatal ==
    (Probing /\ Len(calls) >= 1) =>
        /\ calls[1].rc # 0 => (calls[1].msg = "" /\ ~exists)
        /\ (calls[1].rc = 0 /\ calls[1].msg = "") => exists

\* C5 amended: when the standard output of the probe's list invocation is a
\* JSON object or array, the probe returns true iff the exit code is exactly
\* 0 and no exit code is fatal; when the standard output is not valid JSON
\* the probe ends the run with the parse error, whatever the exit code.
C5_ProbeExitCode ==
    (Probing /\ Len(calls) >= 1) =>
        IF calls[1].valid_json
        THEN /\ calls[1].msg = ""
             /\ exists = (calls[1].rc = 0)
             /\ Len(calls) = 1 => pc = "mutate"
        ELSE /\ Done /\ Len(calls) = 1
             /\ outcome.kind = "fail_json" /\ outcome.msg = MsgParseFailed

C5_Witness ==
    /\ Probing /\ Len(calls) = 1 /\ pc = "mutate"
    /\ calls[1].rc = 127 /\ ~exists

\* C6: the changed flag reported at the end of a successful run is true iff
\* the parsed output of the invocation that produced the result has an
\* actions key, whatever its value; the synthetic result is unchanged.
C6_ChangedIffActions ==
    outcome.kind = "exit_json" =>
        /\ outcome.result.changed =
              ("actions" \in {m[1] : m \in outcome.result.stdout_json.members})
        /\ outcome.result.cmd = <<>> => ~outcome.result.changed

C6_Witness ==
    /\ outcome.kind = "exit_json"
    /\ outcome.result.stdout_json = JsonObject({<<"actions", "{}">>})
    /\ outcome.result.changed

\* C7: every command is [executable, subcommand, --quiet, --json], then the
\* default args (-y, the selector pair, a --channel pair per channel in the
\* given order, --dry-run in check mode only), then the operation's args:
\* -S and the specifiers as given for install, the specifiers as given for
\* update and create; the list commands carry the selector pair only.
C7_CommandVector ==
    \A i \in DOMAIN calls :
        LET cmd == calls[i].cmd IN
        /\ IsPrefix(<<conda.executable>>, cmd)
        /\ SubSeq(cmd, 3, 4) = <<FlagQuiet, FlagJson>>
        /\ Sub(calls[i]) \in MutatingSubs \cup {SubList}
        /\ Sub(calls[i]) = SubList => Tail4(cmd) = SelectorPair
        /\ Sub(calls[i]) = SubInstall =>
              Tail4(cmd) = ExpectedDefaults \o <<FlagStrict>> \o module.name
        /\ Sub(calls[i]) \in {SubUpdate, SubCreate} =>
              Tail4(cmd) = ExpectedDefaults \o module.name
        /\ Sub(calls[i]) = SubRemove => IsPrefix(ExpectedDefaults, Tail4(cmd))

C7_Witness ==
    /\ Len(calls) = 2 /\ Sub(calls[2]) = SubInstall
    /\ module.check_mode
    /\ module.channels = <<<<"d">>, <<"c">>>>
    /\ module.name = <<<<"P","=","1">>, <<"f">>>>

\* C8: in check mode every install, update, create and remove command has
\* --dry-run; outside check mode no command has it; no list command has it.
C8_DryRun ==
    \A i \in DOMAIN calls :
        (FlagDryRun \in ToSet(calls[i].cmd)) =
            (module.check_mode /\ Sub(calls[i]) \in MutatingSubs)

C8_Witness ==
    /\ module.check_mode /\ Len(calls) = 2 /\ Sub(calls[2]) = SubRemove
    /\ FlagDryRun \in ToSet(calls[2].cmd)

\* C9: every invocation but the probe is fail-fast; a fail-fast invocation
\* that exits non-zero ends the run with "Command failed" whatever its
\* output; any other invocation whose output is not valid JSON ends the run
\* with the parse error, also on exit code 0; the failed invocation is the
\* last one, a finished run reports either success or failure, success only
\* when no invocation failed, and nothing runs after the end.
C9_FatalErrorsAbort ==
    /\ \A i \in DOMAIN calls :
        LET failed == calls[i].fail_on_error /\ calls[i].rc # 0 IN
        /\ calls[i].fail_on_error = ~(Probing /\ i = 1)
        /\ failed =>
              /\ i = Len(calls) /\ Done
              /\ outcome.kind = "fail_json" /\ outcome.msg = MsgCommandFailed
        /\ (~failed /\ ~calls[i].valid_json) =>
              /\ i = Len(calls) /\ Done
              /\ outcome.kind = "fail_json" /\ outcome.msg = MsgParseFailed
    /\ Done = (outcome.kind \in {"exit_json", "fail_json", "exception"})
    /\ ~Done => outcome.kind = "running"
    /\ Done => ~ENABLED Next

C9_Witness ==
    /\ module.state = "absent" /\ Done /\ Len(calls) = 1
    /\ calls[1].rc = 0 /\ ~calls[1].valid_json
    /\ outcome.msg = MsgParseFailed

\* C10: the selector pair is [--prefix, environment] when the environment has
\* a path separator and [--name, environment] otherwise, and every command of
\* the run carries this pair.
C10_SelectorPair ==
    Constructed =>
        /\ conda.env_args = SelectorPair
        /\ \A i \in DOMAIN calls :
              IF Sub(calls[i]) = SubList
              THEN SubSeq(calls[i].cmd, 5, 6) = SelectorPair
              ELSE SubSeq(calls[i].cmd, 6, 7) = SelectorPair

C10_Witness ==
    /\ module.environment = <<".","/","e">>
    /\ Len(calls) = 2 /\ Sub(calls[2]) = SubUpdate
    /\ SubSeq(calls[2].cmd, 6, 7) = <<FlagPrefix, <<".","/","e">>>>

====
